---- MODULE Spec2Model ----
(***************************************************************************)
(* Model of src/src/lib/client.ts: the Client of a key-value store spoken  *)
(* to over one TCP socket.  Strings are sequences of UTF-16 code units,    *)
(* byte buffers are sequences of 0..255.  The socket (node:net) is the     *)
(* environment: it is modelled by what it does with the calls the Client   *)
(* makes (connect, write, once, removeListener, destroy) and by the events *)
(* it emits ('connect', 'error', 'data').                                  *)
(***************************************************************************)
EXTENDS Integers, Sequences, FiniteSets, TLC

\* ---------------------------------------------------------------- bounds
\* number of operation calls (ping/get/set/exists/delete) in one behaviour
\* of the client under concurrent use
MaxOps == 2
\* number of operation calls in one behaviour that draws its arguments from
\* the full input sets
MaxCalls == 1
\* number of connect() calls in one behaviour
MaxConnects == 2

\* ------------------------------------------------------------- constants
\* the offset at which set() copies the value into the frame
ValueOffset == 33
\* width of the numeric encoding (./data/encoding)
NumberWidth == 8

Commands == [PING |-> 1, GET |-> 2, SET |-> 3, EXISTS |-> 4, DELETE |-> 5]

DefaultOptions == [host |-> "localhost", port |-> 9055,
                   maxKeySizeBytes |-> 32, maxValueSizeBytes |-> 1024]

\* ------------------------------------------------------------ input sets
Rep(c, n) == [i \in 1..n |-> c]

\* 'user1'
KeyUser1 == <<117, 115, 101, 114, 49>>

\* 'user1', 'k' x 33, 'k' x 34, '€' (one code unit above 255)
Keys == {KeyUser1, Rep(107, 33), Rep(107, 34), <<8364>>}

StrValue(s) == [t |-> "string", s |-> s, n |-> 0, b |-> FALSE]
NumValue(n) == [t |-> "number", s |-> <<>>, n |-> n, b |-> FALSE]
BoolValue(b) == [t |-> "boolean", s |-> <<>>, n |-> 0, b |-> b]
NoValue == [t |-> "none", s |-> <<>>, n |-> 0, b |-> FALSE]

\* 'abc', 'é' (one code unit, two UTF-8 bytes), 7, 42, true, false
Values == {StrValue(<<97, 98, 99>>), StrValue(<<233>>),
           NumValue(7), NumValue(42), BoolValue(TRUE), BoolValue(FALSE)}

\* payloads of inbound 'data' events
Payloads == {<<>>, <<0>>, <<1>>, <<2>>, <<1, 0>>}

\* the arguments and payloads of the behaviours with several operations:
\* 'user1' and 'k' x 34, 'abc', the two status bytes
SessionKeys == {KeyUser1, Rep(107, 34)}
SessionValues == {StrValue(<<97, 98, 99>>)}
SessionPayloads == {<<0>>, <<1>>}

SocketErrors == {"ECONNREFUSED"}

\* the ConnectionOptions objects handed to the constructor; an absent field
\* is the empty set, a supplied field the singleton of its value
Absent == {}
SuppliedOptions ==
    { [host |-> Absent, port |-> Absent, maxKeySizeBytes |-> Absent, maxValueSizeBytes |-> Absent],
      [host |-> {"localhost"}, port |-> {9055}, maxKeySizeBytes |-> {8}, maxValueSizeBytes |-> {16}],
      [host |-> Absent, port |-> {7000}, maxKeySizeBytes |-> {33}, maxValueSizeBytes |-> {1}] }

\* ------------------------------------------------------------ the codec
Uint8(x) == x % 256

Zeros(n) == [i \in 1..n |-> 0]

RECURSIVE Concat(_)
Concat(ss) == IF ss = <<>> THEN <<>> ELSE Head(ss) \o Concat(Tail(ss))

\* UTF-8 bytes of one code unit of the basic plane
Utf8Unit(c) ==
    IF c < 128 THEN <<c>>
    ELSE IF c < 2048 THEN <<192 + (c \div 64), 128 + (c % 64)>>
    ELSE <<224 + (c \div 4096), 128 + ((c \div 64) % 64), 128 + (c % 64)>>

\* TextEncoder.encode
EncodeText(s) == Concat([i \in 1..Len(s) |-> Utf8Unit(s[i])])

\* Number.prototype.toString of an integer, as code units
RECURSIVE Digits(_)
Digits(n) == IF n < 10 THEN <<48 + n>> ELSE Append(Digits(n \div 10), 48 + (n % 10))
NumberToString(n) == IF n < 0 THEN <<45>> \o Digits(0 - n) ELSE Digits(n)

\* encodeNumberToUint8Array: fixed width, most significant byte first
RECURSIVE BigEndian(_, _)
BigEndian(n, width) ==
    IF width = 0 THEN <<>> ELSE Append(BigEndian(n \div 256, width - 1), n % 256)
encodeNumberToUint8Array(n) == BigEndian(n, NumberWidth)

\* validateKey: TRUE when it throws
validateKey(key, opts) == Len(key) > opts.maxKeySizeBytes

\* validateValue: TRUE when it throws
validateValue(value, opts) ==
    IF value.t = "boolean" THEN FALSE
    ELSE LET v == IF value.t = "number" THEN NumberToString(value.n) ELSE value.s
         IN  Len(v) > opts.maxValueSizeBytes

serializeKey(key) == [i \in 1..Len(key) |-> Uint8(key[i])]

\* the type dispatch of set()
EncodeValue(value) ==
    IF value.t = "string" THEN EncodeText(value.s)
    ELSE IF value.t = "number" THEN encodeNumberToUint8Array(value.n)
    ELSE <<(IF value.b THEN 1 ELSE 0)>>

\* TypedArray.prototype.set(src, offset): RangeError when src does not fit
TypedArraySet(target, src, offset) ==
    IF offset + Len(src) > Len(target)
    THEN [ok |-> FALSE, data |-> target]
    ELSE [ok |-> TRUE,
          data |-> [i \in 1..Len(target) |->
                      IF i - 1 >= offset /\ i - 1 < offset + Len(src)
                      THEN src[i - offset] ELSE target[i]]]

\* a key-only frame whose key is copied from offset 0
KeyFrameAtZero(cmd, key, opts) ==
    LET data == [Zeros(1 + opts.maxKeySizeBytes) EXCEPT ![1] = cmd]
    IN  TypedArraySet(data, serializeKey(key), 0)

\* the frame of get / exists / delete
KeyFrame(cmd, key, opts) ==
    LET data == [Zeros(1 + opts.maxKeySizeBytes) EXCEPT ![1] = cmd]
    IN  TypedArraySet(data, serializeKey(key), 1)

\* the frame of set
SetFrame(key, bytes, opts) ==
    LET data == [Zeros(1 + opts.maxKeySizeBytes + Len(bytes)) EXCEPT ![1] = Commands.SET]
        keyed == TypedArraySet(data, serializeKey(key), 1)
    IN  IF keyed.ok THEN TypedArraySet(keyed.data, bytes, ValueOffset) ELSE keyed

\* a status that is true for every non-zero first byte
StatusOfTruthy(data) == IF Len(data) > 0 /\ data[1] # 0 THEN "true" ELSE "false"

\* res[0] === 1
StatusOf(data) == IF Len(data) > 0 /\ data[1] = 1 THEN "true" ELSE "false"


\* ------------------------------------------------------------- the state
VARIABLES
    supplied,    \* the options object the caller handed to the constructor
    options,     \* Client.options
    sock,        \* the socket: "idle", "connecting", "open", "closed" (destroy()), "failed" (destroyed by an error)
    sockErr,     \* the last error the socket emitted
    closeCalled, \* close() has been called
    conns,       \* the promises of the connect() calls, in call order
    connectL,    \* connect() calls whose 'connect' listener is registered
    errorL,      \* connect() calls whose 'error' listener is registered
    ops,         \* the operation calls, in call order
    dataL,       \* operations whose 'data' listener is registered
    queued,      \* operations whose frame the socket buffers until 'connect'
    wireCount,   \* frames that reached the peer
    nextResp,    \* number of the frame the peer answers next
    lastData,    \* payload of the last 'data' event
    call         \* arguments and frame of the last operation call

vars == <<supplied, options, sock, sockErr, closeCalled, conns, connectL, errorL,
          ops, dataL, queued, wireCount, nextResp, lastData, call>>

connVars == <<conns, connectL, errorL, sockErr>>

\* a defaulting that overwrites what the caller supplied
ResolvedToDefault(field, default) == default

\* option ?? default
Resolved(field, default) == IF field = Absent THEN default ELSE CHOOSE v \in field : TRUE

\* the constructor
Constructor(given) ==
    [host |-> Resolved(given.host, DefaultOptions.host),
     port |-> Resolved(given.port, DefaultOptions.port),
     maxKeySizeBytes |-> Resolved(given.maxKeySizeBytes, DefaultOptions.maxKeySizeBytes),
     maxValueSizeBytes |-> Resolved(given.maxValueSizeBytes, DefaultOptions.maxValueSizeBytes)]

NoCall == [op |-> 0, kind |-> "none", key |-> <<>>, value |-> NoValue, frame |-> <<>>]

Init ==
    /\ supplied \in SuppliedOptions
    /\ options = Constructor(supplied)
    /\ sock = "idle"
    /\ sockErr = "none"
    /\ closeCalled = FALSE
    /\ conns = <<>>
    /\ connectL = {}
    /\ errorL = {}
    /\ ops = <<>>
    /\ dataL = {}
    /\ queued = <<>>
    /\ wireCount = 0
    /\ nextResp = 1
    /\ lastData = <<>>
    /\ call = NoCall

\* ------------------------------------------------------------ connecting
\* a promise that is resolved before the socket reports anything
NewConnectionEager == [status |-> "resolved", err |-> "none"]

\* the promise connect() awaits
NewConnection == [status |-> "pending", err |-> "none"]

\* connect(): socket.connect(port, host, resolve); socket.once('error', reject).
\* The caller connects a socket that is neither connecting nor open.
Connect ==
    /\ Len(conns) < MaxConnects
    /\ sock \in {"idle", "closed", "failed"}
    /\ sock' = "connecting"
    /\ conns' = Append(conns, NewConnection)
    /\ connectL' = connectL \cup {Len(conns) + 1}
    /\ errorL' = errorL \cup {Len(conns) + 1}
    /\ UNCHANGED <<supplied, options, sockErr, closeCalled, ops, dataL, queued,
                   wireCount, nextResp, lastData, call>>

\* frame numbers of the buffered writes once the socket flushes them
Flushed(os, q, base) ==
    [i \in 1..Len(os) |->
        IF \E j \in 1..Len(q) : q[j] = i
        THEN [os[i] EXCEPT !.frame = base + (CHOOSE j \in 1..Len(q) : q[j] = i)]
        ELSE os[i]]

\* the socket emits 'connect': the promises resolve and each resumed connect()
\* removes its 'error' listener; buffered writes go out
ConnectOk ==
    /\ sock = "connecting"
    /\ sock' = "open"
    /\ conns' = [i \in 1..Len(conns) |->
                    IF i \in connectL /\ conns[i].status = "pending"
                    THEN [conns[i] EXCEPT !.status = "resolved"] ELSE conns[i]]
    /\ connectL' = {}
    /\ errorL' = errorL \ {i \in connectL : conns[i].status = "pending"}
    /\ ops' = Flushed(ops, queued, wireCount)
    /\ wireCount' = wireCount + Len(queued)
    /\ queued' = <<>>
    /\ UNCHANGED <<supplied, options, sockErr, closeCalled, dataL, nextResp, lastData, call>>

\* the socket emits 'error' during the attempt: the promises reject with it
ConnectError(e) ==
    /\ sock = "connecting"
    /\ sock' = "failed"
    /\ sockErr' = e
    /\ conns' = [i \in 1..Len(conns) |->
                    IF i \in errorL /\ conns[i].status = "pending"
                    THEN [conns[i] EXCEPT !.status = "rejected", !.err = e] ELSE conns[i]]
    /\ errorL' = {}
    /\ queued' = <<>>
    /\ UNCHANGED <<supplied, options, closeCalled, connectL, ops, dataL,
                   wireCount, nextResp, lastData, call>>

\* a close() that fails the operations awaiting their answer
CloseRejectsPending ==
    /\ sock' = "closed"
    /\ closeCalled' = TRUE
    /\ queued' = <<>>
    /\ nextResp' = wireCount + 1
    /\ ops' = [i \in 1..Len(ops) |->
                  IF ops[i].status = "pending"
                  THEN [ops[i] EXCEPT !.status = "rejected", !.err = "SessionClosed"]
                  ELSE ops[i]]
    /\ UNCHANGED <<supplied, options, connVars, dataL, wireCount, lastData, call>>

\* close(): socket.destroy()
Close ==
    /\ sock' = "closed"
    /\ closeCalled' = TRUE
    /\ queued' = <<>>
    /\ nextResp' = wireCount + 1
    /\ UNCHANGED <<supplied, options, connVars, ops, dataL, wireCount, lastData, call>>

\* ------------------------------------------------------------ operations
NewOp(kind) ==
    [kind |-> kind, status |-> "pending", val |-> "none", bytes |-> <<>>, err |-> "none",
     wrote |-> FALSE, frame |-> 0, by |-> 0]

\* the call throws before socket.write
Throw(kind, key, value, err) ==
    /\ ops' = Append(ops, [NewOp(kind) EXCEPT !.status = "rejected", !.err = err])
    /\ call' = [op |-> Len(ops) + 1, kind |-> kind, key |-> key, value |-> value, frame |-> <<>>]
    /\ UNCHANGED <<supplied, options, sock, closeCalled, connVars, dataL, queued,
                   wireCount, nextResp, lastData>>

\* socket.write(frame); socket.once('data', ...): an open socket sends the
\* frame, a connecting socket buffers it, any other socket drops it
WriteAndAwait(kind, key, value, frame) ==
    /\ ops' = Append(ops, [NewOp(kind) EXCEPT !.wrote = TRUE,
                              !.frame = IF sock = "open" THEN wireCount + 1 ELSE 0])
    /\ wireCount' = IF sock = "open" THEN wireCount + 1 ELSE wireCount
    /\ queued' = IF sock = "connecting" THEN Append(queued, Len(ops) + 1) ELSE queued
    /\ dataL' = dataL \cup {Len(ops) + 1}
    /\ call' = [op |-> Len(ops) + 1, kind |-> kind, key |-> key, value |-> value, frame |-> frame]
    /\ UNCHANGED <<supplied, options, sock, closeCalled, connVars, nextResp, lastData>>

Ping(limit) ==
    /\ Len(ops) < limit
    /\ WriteAndAwait("ping", <<>>, NoValue, <<Commands.PING>>)

\* get, exists, delete: validateKey, build the frame, write, await
KeyOp(kind, cmd, key, limit) ==
    /\ Len(ops) < limit
    /\ IF validateKey(key, options)
       THEN Throw(kind, key, NoValue, "KeyTooLarge")
       ELSE LET built == KeyFrame(cmd, key, options)
            IN  IF built.ok
                THEN WriteAndAwait(kind, key, NoValue, built.data)
                ELSE Throw(kind, key, NoValue, "RangeError")

Get(key, limit) == KeyOp("get", Commands.GET, key, limit)

Exists(key, limit) == KeyOp("exists", Commands.EXISTS, key, limit)

Delete(key, limit) == KeyOp("delete", Commands.DELETE, key, limit)

\* a set() that validates the value before the key
SetValueFirst(key, value, limit) ==
    /\ Len(ops) < limit
    /\ IF validateValue(value, options)
       THEN Throw("set", key, value, "ValueTooLarge")
       ELSE IF validateKey(key, options)
       THEN Throw("set", key, value, "KeyTooLarge")
       ELSE LET built == SetFrame(key, EncodeValue(value), options)
            IN  IF built.ok
                THEN WriteAndAwait("set", key, value, built.data)
                ELSE Throw("set", key, value, "RangeError")

\* set(): validateKey, validateValue, encode the value, build the frame,
\* write, await
Set(key, value, limit) ==
    /\ Len(ops) < limit
    /\ IF validateKey(key, options)
       THEN Throw("set", key, value, "KeyTooLarge")
       ELSE IF validateValue(value, options)
       THEN Throw("set", key, value, "ValueTooLarge")
       ELSE LET built == SetFrame(key, EncodeValue(value), options)
            IN  IF built.ok
                THEN WriteAndAwait("set", key, value, built.data)
                ELSE Throw("set", key, value, "RangeError")

\* a ping that decodes its payload as a status byte
PingResultAsStatus(data) == StatusOf(data)

\* what ping() returns once its promise resolved
PingResult(data) == "true"

\* a decoding that treats every answer as a status byte
ResultAsStatus(kind, data) == StatusOf(data)

\* what each operation makes of the payload its listener received
Result(kind, data) ==
    IF kind = "ping" THEN PingResult(data)
    ELSE IF kind = "get" THEN "serial"
    ELSE StatusOf(data)

\* a data event whose listeners stay registered (on instead of once)
DataKeepsListeners(payload) ==
    /\ sock = "open"
    /\ nextResp <= wireCount
    /\ ops' = [i \in 1..Len(ops) |->
                  IF i \in dataL /\ ops[i].status = "pending"
                  THEN [ops[i] EXCEPT !.status = "resolved",
                                      !.val = Result(ops[i].kind, payload),
                                      !.bytes = IF ops[i].kind = "get" THEN payload ELSE <<>>,
                                      !.by = nextResp]
                  ELSE ops[i]]
    /\ dataL' = dataL
    /\ nextResp' = nextResp + 1
    /\ lastData' = payload
    /\ UNCHANGED <<supplied, options, sock, closeCalled, connVars, queued, wireCount, call>>

\* the peer answers the oldest unanswered frame: the socket emits 'data' and
\* every registered once-listener runs and is removed
Data(payload) ==
    /\ sock = "open"
    /\ nextResp <= wireCount
    /\ ops' = [i \in 1..Len(ops) |->
                  IF i \in dataL /\ ops[i].status = "pending"
                  THEN [ops[i] EXCEPT !.status = "resolved",
                                      !.val = Result(ops[i].kind, payload),
                                      !.bytes = IF ops[i].kind = "get" THEN payload ELSE <<>>,
                                      !.by = nextResp]
                  ELSE ops[i]]
    /\ dataL' = {}
    /\ nextResp' = nextResp + 1
    /\ lastData' = payload
    /\ UNCHANGED <<supplied, options, sock, closeCalled, connVars, queued, wireCount, call>>

\* the client under concurrent use: up to MaxOps operations, any interleaving
\* of calls and socket events
Next ==
    \/ Connect
    \/ ConnectOk
    \/ \E e \in SocketErrors : ConnectError(e)
    \/ Close
    \/ Ping(MaxOps)
    \/ \E key \in SessionKeys : Get(key, MaxOps)
    \/ \E key \in SessionKeys : Exists(key, MaxOps)
    \/ \E key \in SessionKeys : Delete(key, MaxOps)
    \/ \E key \in SessionKeys, value \in SessionValues : Set(key, value, MaxOps)
    \/ \E payload \in SessionPayloads : Data(payload)

Spec == Init /\ [][Next]_vars

\* the socket delivers the events it owes: the outcome of a connection
\* attempt and the peer's answers
FairSpec ==
    /\ Spec
    /\ WF_vars(ConnectOk \/ \E e \in SocketErrors : ConnectError(e))
    /\ WF_vars(\E payload \in SessionPayloads : Data(payload))

\* the same client, up to MaxCalls operations with arguments and payloads
\* from the full input sets
CallNext ==
    \/ Connect
    \/ ConnectOk
    \/ \E e \in SocketErrors : ConnectError(e)
    \/ Close
    \/ Ping(MaxCalls)
    \/ \E key \in Keys : Get(key, MaxCalls)
    \/ \E key \in Keys : Exists(key, MaxCalls)
    \/ \E key \in Keys : Delete(key, MaxCalls)
    \/ \E key \in Keys, value \in Values : Set(key, value, MaxCalls)
    \/ \E payload \in Payloads : Data(payload)

CallSpec == Init /\ [][CallNext]_vars


\* every choice of supplied and absent fields of the constructor's argument
OptionSubsets ==
    [host : {Absent, {"kv.example"}}, port : {Absent, {7000}},
     maxKeySizeBytes : {Absent, {33}}, maxValueSizeBytes : {Absent, {16}}]

ConfigInit ==
    /\ supplied \in OptionSubsets
    /\ options = Constructor(supplied)
    /\ sock = "idle"
    /\ sockErr = "none"
    /\ closeCalled = FALSE
    /\ conns = <<>>
    /\ connectL = {}
    /\ errorL = {}
    /\ ops = <<>>
    /\ dataL = {}
    /\ queued = <<>>
    /\ wireCount = 0
    /\ nextResp = 1
    /\ lastData = <<>>
    /\ call = NoCall

\* the client constructed from each of these arguments
ConfigSpec == ConfigInit /\ [][CallNext]_vars

\* the caller has awaited every operation it called
Awaited == \A i \in 1..Len(ops) : ops[i].status # "pending"

\* the client under strictly sequential use: an operation is called only
\* when every earlier one has completed; the peer answers each frame once
SeqNext ==
    \/ Connect
    \/ ConnectOk
    \/ \E e \in SocketErrors : ConnectError(e)
    \/ Close
    \/ Awaited /\ Ping(MaxOps)
    \/ Awaited /\ \E key \in SessionKeys : Get(key, MaxOps)
    \/ Awaited /\ \E key \in SessionKeys : Exists(key, MaxOps)
    \/ Awaited /\ \E key \in SessionKeys : Delete(key, MaxOps)
    \/ Awaited /\ \E key \in SessionKeys, value \in SessionValues : Set(key, value, MaxOps)
    \/ \E payload \in Payloads : Data(payload)

SeqSpec == Init /\ [][SeqNext]_vars

\* ------------------------------------------------------------ vocabulary
\* errors raised before socket.write is reached
LocalErrors == {"KeyTooLarge", "ValueTooLarge", "RangeError"}

\* this step is an operation call
IsCall == Len(ops') = Len(ops) + 1

\* this step is an inbound 'data' event
IsData == sock = "open" /\ sock' = "open" /\ nextResp' = nextResp + 1

\* the frame of operation i reached the peer and its answer has not arrived
Outstanding(i) ==
    /\ sock = "open"
    /\ ops[i].status = "pending"
    /\ ops[i].frame > 0
    /\ ops[i].frame >= nextResp

\* the step leaves socket and listeners as they were
Untouched ==
    /\ wireCount' = wireCount
    /\ queued' = queued
    /\ dataL' = dataL
    /\ ~ops'[Len(ops')].wrote

\* ------------------------------------------------------------------ C1
\* C1: while the frame of some operation is on the wire and unanswered, no
\* step puts another frame on the wire (a second operation is queued or fails).
C1_SingleOutstanding ==
    [][(\E i \in 1..Len(ops) : Outstanding(i)) => wireCount' = wireCount]_vars

\* ------------------------------------------------------------------ C2
\* C2: one data event completes at most one pending operation, and the event
\* that completes an operation is the answer to that operation's own frame.
C2_OneResponsePerCommand ==
    /\ [](\A i \in 1..Len(ops) : ops[i].status = "resolved" => ops[i].by = ops[i].frame)
    /\ [][Cardinality({i \in 1..Len(ops) :
              ops[i].status = "pending" /\ ops'[i].status # "pending"}) <= 1]_vars

\* ------------------------------------------------------------------ C3
\* the layout of a SET frame for max key size K
SetLayout(frame, key, bytes, K) ==
    /\ Len(frame) = 1 + K + Len(bytes)
    /\ frame[1] = Commands.SET
    /\ \A j \in 1..K : frame[1 + j] = IF j <= Len(key) THEN Uint8(key[j]) ELSE 0
    /\ \A j \in 1..Len(bytes) : frame[1 + K + j] = bytes[j]

\* C3: for every configured max key size, every set() call with a valid key
\* and a valid value writes a frame of 1 + K + len(value) bytes: the SET code,
\* the key left-aligned and zero-padded in [1, 1+K), the value from 1 + K on.
C3_SetFrameLayout ==
    (/\ call.kind = "set"
     /\ ~validateKey(call.key, options)
     /\ ~validateValue(call.value, options))
    => /\ ops[call.op].wrote
       /\ SetLayout(call.frame, call.key, EncodeValue(call.value), options.maxKeySizeBytes)

\* ------------------------------------------------------------------ C4
\* 'abc'
ValueAbc == StrValue(<<97, 98, 99>>)

\* this step is set('user1', 'abc') on a connected client with key size 8
\* and value size 16
IsScenarioCall ==
    /\ IsCall
    /\ sock = "open"
    /\ options.maxKeySizeBytes = 8
    /\ options.maxValueSizeBytes = 16
    /\ call'.kind = "set"
    /\ call'.key = KeyUser1
    /\ call'.value = ValueAbc

\* C4: with key size 8 and value size 16, set('user1', 'abc') on a connected
\* client puts exactly one frame on the wire, [SET,'u','s','e','r','1',0,0,0,
\* 'a','b','c'], stays pending without an error, and resolves to true when
\* the peer answers [1].
C4_EndToEnd ==
    /\ [][IsScenarioCall =>
          /\ wireCount' = wireCount + 1
          /\ call'.frame = <<Commands.SET, 117, 115, 101, 114, 49, 0, 0, 0, 97, 98, 99>>
          /\ ops'[call'.op].status = "pending"
          /\ ops'[call'.op].err = "none"]_vars
    /\ []((/\ options.maxKeySizeBytes = 8
           /\ options.maxValueSizeBytes = 16
           /\ call.kind = "set"
           /\ call.key = KeyUser1
           /\ call.value = ValueAbc
           /\ ops[call.op].status = "resolved"
           /\ ops[call.op].by = nextResp - 1
           /\ lastData = <<1>>)
          => ops[call.op].val = "true")

\* ------------------------------------------------------------------ C5
\* size of a value as the size limit counts it: UTF-8 bytes of a string,
\* decimal string form of a number
ValueSize(value) ==
    IF value.t = "string" THEN Len(EncodeText(value.s))
    ELSE IF value.t = "number" THEN Len(NumberToString(value.n))
    ELSE 1

\* C5: a call whose key is longer than the max key size fails with KeyTooLarge,
\* a set() whose string or number value exceeds the max value size fails with
\* ValueTooLarge, in both cases nothing is written and no listener is
\* registered; a boolean value never fails the value-size check.
C5_ValidationBeforeIO ==
    [][IsCall =>
          LET c == call'
              o == ops'[call'.op]
          IN  /\ (c.kind # "ping" /\ Len(c.key) > options.maxKeySizeBytes)
                    => (o.status = "rejected" /\ o.err = "KeyTooLarge" /\ Untouched)
              /\ (/\ c.kind = "set"
                  /\ Len(c.key) <= options.maxKeySizeBytes
                  /\ c.value.t \in {"string", "number"}
                  /\ ValueSize(c.value) > options.maxValueSizeBytes)
                    => (o.status = "rejected" /\ o.err = "ValueTooLarge" /\ Untouched)
              /\ (c.kind = "set" /\ c.value.t = "boolean") => o.err # "ValueTooLarge"]_vars

\* ------------------------------------------------------------------ C6
\* C6: an operation called with valid arguments while the socket was never
\* connected or is still connecting fails with NotConnected and writes nothing.
C6_NotConnected ==
    [][(/\ IsCall
        /\ sock \in {"idle", "connecting"}
        /\ ops'[Len(ops')].err \notin LocalErrors)
       => /\ ops'[Len(ops')].status = "rejected"
          /\ ops'[Len(ops')].err = "NotConnected"
          /\ Untouched]_vars

\* ------------------------------------------------------------------ C7
\* C7: once close() has been called every operation called with valid
\* arguments fails with SessionClosed instead of staying pending, and the
\* socket is never open again.
C7_ClosedForGood ==
    /\ [][(IsCall /\ closeCalled /\ ops'[Len(ops')].err \notin LocalErrors)
          => /\ ops'[Len(ops')].status = "rejected"
             /\ ops'[Len(ops')].err = "SessionClosed"]_vars
    /\ [](closeCalled => sock # "open")

\* ------------------------------------------------------------------ C8
\* close() was called while operation i had written its frame and awaited
\* the answer
ClosedWhilePending(i) ==
    /\ i <= Len(ops)
    /\ sock = "closed"
    /\ ops[i].status = "pending"
    /\ ops[i].frame > 0

FailedWith(i, err) ==
    /\ i <= Len(ops)
    /\ ops[i].status = "rejected"
    /\ ops[i].err = err

\* C8: an operation that awaits its answer when close() is called eventually
\* fails with SessionClosed.
C8_CloseFailsPending ==
    \A i \in 1..MaxOps : ClosedWhilePending(i) ~> FailedWith(i, "SessionClosed")

\* ------------------------------------------------------------------ C9
\* connect() call i has status st after the step and had not before
Becomes(i, st) ==
    /\ conns'[i].status = st
    /\ (i > Len(conns) \/ conns[i].status # st)

\* C9: a connect() promise resolves only in the step that takes the socket
\* from connecting to open, and the promise of the current attempt resolves
\* there; it rejects only in the step where the socket fails, with the error
\* the socket emitted, and the promise of the current attempt rejects there;
\* a failed socket is not open and starts connecting again only by a new
\* connect() call, which makes one attempt.
C9_ConnectOnce ==
    [][/\ \A i \in 1..Len(conns') :
            /\ Becomes(i, "resolved") => (sock = "connecting" /\ sock' = "open")
            /\ Becomes(i, "rejected") =>
                  (sock = "connecting" /\ sock' = "failed" /\ conns'[i].err = sockErr')
       /\ (sock = "connecting" /\ sock' = "open") =>
              (Len(conns') = Len(conns) /\ conns'[Len(conns)].status = "resolved")
       /\ (sock = "connecting" /\ sock' = "failed") =>
              /\ Len(conns') = Len(conns)
              /\ conns'[Len(conns)].status = "rejected"
              /\ conns'[Len(conns)].err = sockErr'
       /\ (sock # "connecting" /\ sock' = "connecting") =>
              (Len(conns') = Len(conns) + 1 /\ conns'[Len(conns')].status = "pending")
       /\ Len(conns') # Len(conns) => (sock # "connecting" /\ sock' = "connecting")]_vars

\* a first attempt failed with the socket's error, a second one connected
C9_Witness ==
    /\ Len(conns) = 2
    /\ conns[1].status = "rejected"
    /\ conns[1].err = "ECONNREFUSED"
    /\ conns[2].status = "resolved"
    /\ sock = "open"

\* ----------------------------------------------------------------- C10
\* C10: ping() hands the socket exactly one frame, the single byte PING, and
\* is pending afterwards; a pending ping changes status only in a data event,
\* the first data event after its call resolves it, and the result is true
\* whatever the payload.
C10_Ping ==
    [][/\ (IsCall /\ call'.kind = "ping") =>
              /\ call'.frame = <<Commands.PING>>
              /\ ops'[call'.op].wrote
              /\ ops'[call'.op].status = "pending"
              /\ call'.op \in dataL'
              /\ (sock = "open" => wireCount' = wireCount + 1)
       /\ \A i \in 1..Len(ops) :
              (ops[i].kind = "ping" /\ ops[i].status = "pending") =>
                  /\ ops'[i].status # "pending" => IsData
                  /\ IsData => (ops'[i].status = "resolved" /\ ops'[i].val = "true")]_vars

\* a ping resolved to true by a data event whose payload is empty or starts with 0
C10_Witness ==
    \E i \in 1..Len(ops) :
        /\ ops[i].kind = "ping"
        /\ ops[i].status = "resolved"
        /\ ops[i].val = "true"
        /\ ops[i].by = nextResp - 1
        /\ lastData \in {<<>>, <<0>>}

\* ----------------------------------------------------------------- C11
StatusKinds == {"set", "exists", "delete"}

\* C11: a pending set, exists or delete never fails; the data event that
\* completes it resolves it to true when the first byte of the payload is 1
\* and to false for every other payload, the empty one included.
C11_LenientStatus ==
    [][\A i \in 1..Len(ops) :
          (ops[i].kind \in StatusKinds /\ ops[i].status = "pending") =>
              /\ ops'[i].status # "rejected"
              /\ ops'[i].status = "resolved" =>
                    /\ IsData
                    /\ ops'[i].val \in {"true", "false"}
                    /\ ops'[i].val = "true" <=>
                          (lastData' # <<>> /\ Head(lastData') = 1)]_vars

\* a status operation resolved to false by a payload whose first byte is 2
C11_Witness ==
    \E i \in 1..Len(ops) :
        /\ ops[i].kind \in StatusKinds
        /\ ops[i].status = "resolved"
        /\ ops[i].val = "false"
        /\ ops[i].by = nextResp - 1
        /\ lastData = <<2>>

\* ----------------------------------------------------------------- C12
\* C12: the value bytes of every SET frame handed to the socket, the bytes
\* after the key region, number at most the configured max value size.
C12_ValueBytesBounded ==
    (call.kind = "set" /\ ops[call.op].wrote) =>
        Len(call.frame) - (1 + options.maxKeySizeBytes) <= options.maxValueSizeBytes

\* ----------------------------------------------------------------- C13
\* the field of the options holds the caller's value when one was supplied
\* and the given default when none was
Holds(given, field, default) ==
    /\ given = Absent => field = default
    /\ given # Absent => field \in given

\* C13: for every subset of supplied options, in every state each supplied
\* field holds the caller's value and each absent one its default (localhost,
\* 9055, 32, 1024), and no step changes the options.
C13_ConfigResolved ==
    /\ [](/\ Holds(supplied.host, options.host, "localhost")
          /\ Holds(supplied.port, options.port, 9055)
          /\ Holds(supplied.maxKeySizeBytes, options.maxKeySizeBytes, 32)
          /\ Holds(supplied.maxValueSizeBytes, options.maxValueSizeBytes, 1024))
    /\ [][options' = options]_vars

\* port and value size supplied, host and key size defaulted, after a
\* connect(), an operation and a close()
C13_Witness ==
    /\ supplied.host = Absent
    /\ supplied.maxKeySizeBytes = Absent
    /\ options = [host |-> "localhost", port |-> 7000,
                  maxKeySizeBytes |-> 32, maxValueSizeBytes |-> 16]
    /\ Len(conns) > 0
    /\ Len(ops) > 0
    /\ sock = "closed"

\* ----------------------------------------------------------------- C14
\* C14: in set() the key check comes first, the value check second, frame
\* construction third and the write last: a key that is too long fails with
\* KeyTooLarge whatever the value, a value failure implies a valid key, a
\* failure of frame construction implies both checks passed, every failure
\* leaves the socket untouched, and a write implies that nothing failed.
C14_SetOrdering ==
    [][(IsCall /\ call'.kind = "set") =>
          LET c == call'
              o == ops'[call'.op]
              keyLong == Len(c.key) > options.maxKeySizeBytes
          IN  /\ keyLong => o.err = "KeyTooLarge"
              /\ o.err = "ValueTooLarge" => ~keyLong
              /\ o.err = "RangeError" => (~keyLong /\ ~validateValue(c.value, options))
              /\ o.err # "none" => (o.status = "rejected" /\ c.frame = <<>> /\ Untouched)
              /\ o.wrote => (o.err = "none" /\ c.frame # <<>>)]_vars

\* a set() whose key and value are both too large failed with the key error
C14_Witness ==
    /\ call.kind = "set"
    /\ Len(call.key) > options.maxKeySizeBytes
    /\ call.value.t = "string"
    /\ Len(call.value.s) > options.maxValueSizeBytes
    /\ ops[call.op].status = "rejected"
    /\ ops[call.op].err = "KeyTooLarge"

\* ----------------------------------------------------------------- C15
KeyOnlyKinds == {"get", "exists", "delete"}

\* the command code the frame of a key-only operation starts with
CodeOf(kind) ==
    IF kind = "get" THEN Commands.GET
    ELSE IF kind = "exists" THEN Commands.EXISTS
    ELSE Commands.DELETE

\* C15: for every configured max key size K, get, exists and delete with a
\* valid key write a frame of exactly 1 + K bytes: the code of the command,
\* then one byte per character of the key (its code unit kept to 8 bits),
\* then zeros up to 1 + K.
C15_KeyFrameLayout ==
    (call.kind \in KeyOnlyKinds /\ Len(call.key) <= options.maxKeySizeBytes) =>
        /\ ops[call.op].wrote
        /\ Len(call.frame) = 1 + options.maxKeySizeBytes
        /\ call.frame[1] = CodeOf(call.kind)
        /\ \A j \in 1..options.maxKeySizeBytes :
              call.frame[1 + j] = IF j <= Len(call.key) THEN call.key[j] % 256 ELSE 0

\* delete('user1') with key size 8: five key bytes and three bytes of padding
C15_Witness ==
    /\ call.kind = "delete"
    /\ call.key = KeyUser1
    /\ options.maxKeySizeBytes = 8
    /\ ops[call.op].wrote
    /\ Len(call.frame) = 9

\* ----------------------------------------------------------------- C16
RECURSIVE StripPadding(_)
\* a byte sequence without its trailing zeros
StripPadding(bytes) ==
    IF bytes = <<>> \/ bytes[Len(bytes)] # 0 THEN bytes
    ELSE StripPadding(SubSeq(bytes, 1, Len(bytes) - 1))

\* the key read back from the key region of a frame: padding stripped, each
\* byte taken as the code unit of one character
DecodeKey(frame, K) == StripPadding(SubSeq(frame, 2, 1 + K))

\* C16: for every key of at most K characters, the key read back from the
\* key region of the frame built for it is the key itself.
C16_KeyRoundTrip ==
    (/\ call.kind \in KeyOnlyKinds
     /\ Len(call.key) <= options.maxKeySizeBytes
     /\ ops[call.op].wrote)
    => DecodeKey(call.frame, options.maxKeySizeBytes) = call.key

\* ----------------------------------------------------------------- C17
\* C17: a pending operation changes status only in a step that is an inbound
\* data event, and its listener was registered before that step; in every
\* other step (another call, connect, close, a connection outcome) it stays
\* pending.
C17_NoTimeout ==
    [][\A i \in 1..Len(ops) :
          (ops[i].status = "pending" /\ ops'[i].status # "pending") =>
              (IsData /\ i \in dataL)]_vars

\* the first operation still awaits the answer to its frame on an open
\* socket after a second operation was called
C17_Witness ==
    /\ Len(ops) = 2
    /\ sock = "open"
    /\ ops[1].status = "pending"
    /\ ops[1].frame > 0
    /\ ops[1].frame >= nextResp

\* ----------------------------------------------------------------- C18
\* the operations the step completes
Completed == {i \in 1..Len(ops) : ops[i].status = "pending" /\ ops'[i].status # "pending"}

\* C18: under sequential use every data event completes exactly one
\* operation, the one whose frame the event answers; get then wraps exactly
\* the bytes of that event, set, exists and delete return true exactly when
\* its first byte is 1; every resolved operation was resolved by the answer
\* to its own frame.
C18_SequentialCorrelation ==
    /\ [][IsData =>
            /\ Cardinality(Completed) = 1
            /\ \A i \in Completed :
                  /\ ops[i].frame = nextResp
                  /\ ops'[i].status = "resolved"
                  /\ ops'[i].by = ops[i].frame
                  /\ ops[i].kind = "get" =>
                        (ops'[i].val = "serial" /\ ops'[i].bytes = lastData')
                  /\ ops[i].kind \in StatusKinds =>
                        (ops'[i].val = IF lastData' # <<>> /\ Head(lastData') = 1
                                       THEN "true" ELSE "false")]_vars
    /\ [](\A i \in 1..Len(ops) :
             ops[i].status = "resolved" => (ops[i].frame > 0 /\ ops[i].by = ops[i].frame))

\* two operations called one after the other, each resolved by the answer to
\* its own frame, the second a get that wraps the bytes of the last event
C18_Witness ==
    /\ Len(ops) = 2
    /\ ops[1].status = "resolved"
    /\ ops[1].by = 1
    /\ ops[2].kind = "get"
    /\ ops[2].status = "resolved"
    /\ ops[2].by = 2
    /\ ops[2].bytes = lastData
    /\ lastData = <<1, 0>>

\* ----------------------------------------------------------------- C19
\* C19: in every state the registered data listeners are exactly those of
\* the operations that wrote their frame and have not completed, one each;
\* the step that completes an operation removes its listener, and a
\* completed operation is never changed by a later step.
C19_ListenersMatchPending ==
    /\ [](dataL = {i \in 1..Len(ops) : ops[i].wrote /\ ops[i].status = "pending"})
    /\ [][\A i \in 1..Len(ops) :
             /\ (ops[i].status = "pending" /\ ops'[i].status # "pending") =>
                    (i \in dataL /\ i \notin dataL')
             /\ ops[i].status # "pending" => ops'[i] = ops[i]]_vars

\* the first operation completed and left no listener, the second one holds
\* the only listener
C19_Witness ==
    /\ Len(ops) = 2
    /\ ops[1].status = "resolved"
    /\ ops[2].status = "pending"
    /\ dataL = {2}

====
